---- MODULE Spec2Model ----
(***************************************************************************)
(* Lost & Found portal (src/App.py): the items table, its status          *)
(* lifecycle, the auto-archive sweep and the filtered item query.         *)
(*                                                                         *)
(* Time is counted in ticks, TicksPerDay ticks to a calendar day.  A      *)
(* stored TEXT timestamp is not the tick count itself but the ISO string   *)
(* written by datetime.isoformat(): a date part and a time-of-day part,    *)
(* which SQLite compares as text, date() cuts to its date part and         *)
(* datetime.fromisoformat() parses back.                                   *)
(***************************************************************************)
EXTENDS Integers, Sequences, FiniteSets, TLC

\* ---------------------------------------------------------------- bounds
TicksPerDay == 2        \* clock resolution of the model
MaxOffset   == 1        \* the clock is read within MaxOffset ticks after ...
MaxPeriods  == 1        \* ... a multiple (0..MaxPeriods) of the threshold
MaxItems    == 2        \* cap on the AUTOINCREMENT counter
MaxLegacy   == 1        \* rows already in the file when SpecLegacy starts
MaxSessions == 2        \* browser sessions served by the portal
MaxShared   == 1        \* cap on the counter while the sessions interleave

\* ------------------------------------------------------ program constants
AUTO_ARCHIVE_DAYS == 30

Threshold == AUTO_ARCHIVE_DAYS * TicksPerDay      \* timedelta(days=30), in ticks

Statuses     == {"lost", "collected", "archived"}
Descriptions == {"wallet", "keys"}
Usernames    == {"alice", "Alice"}
Passwords    == {"pw1", "pw2"}
NoUser       == ""       \* st.session_state.username = None
NoStatus     == ""       \* status_filter=None (falsy): no status clause
NoDate       == -1       \* start_date/end_date=None: no date clause
SqlNull      == -2       \* date(x) of a value SQLite cannot read as a time

\* ------------------------------------------------------------------ state
VARIABLES
    items,      \* the rows of table items
    seq,        \* sqlite_sequence of items: largest rowid ever handed out
    now,        \* datetime.utcnow(), in ticks
    op,         \* the operation executed last and its arguments
    result,     \* rows returned by the last get_items
    teachers,   \* the rows of table teachers
    sess,       \* per browser session: st.session_state and the script position
    actor       \* the session whose script took the last step

\* what the item operations leave alone
pvars == <<teachers, sess, actor>>

vars == <<items, seq, now, op, result, teachers, sess, actor>>

\* ------------------------------------------------------------ TEXT values
\* A stored uploaded_at / collected_at.  kind "iso": the text isoformat()
\* writes, date and time of day.  kind "aware": the same text followed by
\* '+00:00'.  kind "text": any other text; its date field holds what SQLite's
\* date() makes of it and its time field its place in the text order.
Today    == -3       \* date('now'): the day of the clock
Year2000 == -8766    \* date('12:00') = '2000-01-01', counted from day 0 ('2024-01-01')

NULL      == [kind |-> "null", date |-> 0, time |-> 0]
EmptyText == [kind |-> "text", date |-> SqlNull, time |-> 1]      \* ''
TimeOnly  == [kind |-> "text", date |-> Year2000, time |-> 2]     \* '12:00'
JulianDay == [kind |-> "text", date |-> 1, time |-> 4]            \* '2460311.5'
Garbage   == [kind |-> "text", date |-> SqlNull, time |-> 5]      \* 'not-a-date'
NowText   == [kind |-> "text", date |-> Today, time |-> 6]        \* 'now'

isoformat(t) ==
    [kind |-> "iso", date |-> t \div TicksPerDay, time |-> t % TicksPerDay]

\* isoformat() of a datetime that carries the UTC offset
Aware(t) ==
    [kind |-> "aware", date |-> t \div TicksPerDay, time |-> t % TicksPerDay]

\* datetime.fromisoformat raises on None (TypeError) and on text that is not
\* an ISO timestamp (ValueError); Parses tells the two outcomes apart.
Parses(s) == s.kind \in {"iso", "aware"}

\* up < cutoff raises TypeError when up carries an offset (cutoff has none).
Naive(s) == s.kind = "iso"

fromisoformat(s) == s.date * TicksPerDay + s.time

\* SQLite date(x): the date part, NULL when x is NULL or not a time string.
sql_date(s) ==
    CASE s.kind \in {"iso", "aware"} -> s.date
      [] s.kind = "null"             -> SqlNull
      [] s.date = Today              -> now \div TicksPerDay
      [] OTHER                       -> s.date

\* SQLite comparison of two stored values under ORDER BY: NULL sorts below
\* every TEXT, TEXT compares bytewise ('' < '12:00' < '2024-...' < '2460311.5' < 'not...' < 'now').
TextRank(s) ==
    CASE s.kind = "null"             -> 0
      [] s.kind \in {"iso", "aware"} -> 3
      [] OTHER                       -> s.time

TextLess(a, b) ==
    \/ TextRank(a) < TextRank(b)
    \/ /\ Parses(a) /\ Parses(b)
       /\ \/ a.date < b.date
          \/ a.date = b.date /\ a.time < b.time
          \/ a.date = b.date /\ a.time = b.time /\ Naive(a) /\ ~Naive(b)

Sessions == 1..MaxSessions

Ids(tbl) == {r.id : r \in tbl}

SetMax(S) == IF S = {} THEN 0 ELSE CHOOSE m \in S : \A x \in S : x <= m

ClockValues ==
    {p * Threshold + o : p \in 0..MaxPeriods, o \in 0..MaxOffset}

FilterDates == {0, AUTO_ARCHIVE_DAYS}

Op(name, id) ==
    [name |-> name, id |-> id, description |-> "",
     status_filter |-> NoStatus, start_date |-> NoDate, end_date |-> NoDate,
     username |-> "", password |-> "", ok |-> FALSE]

\* ------------------------------------------------------------- operations
\* INSERT of add_item: AUTOINCREMENT takes one more than the largest rowid
\* that ever existed.
\* rowid of a plain INTEGER PRIMARY KEY (no AUTOINCREMENT): one more than
\* the largest rowid now in the table.
NewId_max_rowid(tbl, s) == SetMax(Ids(tbl)) + 1

NewId(tbl, s) == SetMax(Ids(tbl) \cup {s}) + 1

\* add_item with the timestamp bound to collected_at as well.
add_item_collected_now(tbl, s, description, found_location, collect_location, image_path, t) ==
    tbl \cup {[id               |-> NewId(tbl, s),
               description      |-> description,
               found_location   |-> found_location,
               collect_location |-> collect_location,
               image_path       |-> image_path,
               uploaded_at      |-> isoformat(t),
               status           |-> "lost",
               collected_at     |-> isoformat(t)]}

add_item(tbl, s, description, found_location, collect_location, image_path, t) ==
    tbl \cup {[id               |-> NewId(tbl, s),
               description      |-> description,
               found_location   |-> found_location,
               collect_location |-> collect_location,
               image_path       |-> image_path,
               uploaded_at      |-> isoformat(t),
               status           |-> "lost",
               collected_at     |-> NULL]}

\* mark_collected with the timestamp written to uploaded_at as well.
mark_collected_touches_upload(tbl, item_id, t) ==
    {IF r.id = item_id
       THEN [r EXCEPT !.status = "collected", !.collected_at = isoformat(t),
                      !.uploaded_at = isoformat(t)]
       ELSE r : r \in tbl}

mark_collected(tbl, item_id, t) ==
    {IF r.id = item_id
       THEN [r EXCEPT !.status = "collected", !.collected_at = isoformat(t)]
       ELSE r : r \in tbl}

archive_item(tbl, item_id) ==
    {IF r.id = item_id THEN [r EXCEPT !.status = "archived"] ELSE r : r \in tbl}

\* auto_archive, first part: the cutoff and the SELECT of the lost rows, each
\* parsed and compared with the cutoff: the ids the loop is going to archive.
\* The variant compares by <= (an item of exactly 30 days is taken).
sweep_select_inclusive(tbl, t) ==
    LET cutoff == t - Threshold
    IN  {r.id : r \in {q \in tbl : /\ q.status = "lost"
                                   /\ Parses(q.uploaded_at)
                                   /\ fromisoformat(q.uploaded_at) <= cutoff}}

\* The variant reads one row (fetchone) instead of all of them.
sweep_select_first_row(tbl, t) ==
    LET cutoff == t - Threshold
        lost   == {r \in tbl : r.status = "lost"}
        first  == {r \in lost : \A q \in lost : r.id <= q.id}
    IN  {r.id : r \in {q \in first : /\ Parses(q.uploaded_at)
                                     /\ fromisoformat(q.uploaded_at) < cutoff}}

sweep_select(tbl, t) ==
    LET cutoff == t - Threshold
    IN  {r.id : r \in {q \in tbl : /\ q.status = "lost"
                                   /\ Parses(q.uploaded_at)
                                   /\ fromisoformat(q.uploaded_at) < cutoff}}

\* A lost row whose uploaded_at parses to a datetime with an offset: the
\* comparison with the cutoff raises TypeError outside the try, the loop ends
\* there and the connection is dropped without a commit.
sweep_raises(tbl) ==
    \E r \in tbl : /\ r.status = "lost"
                   /\ Parses(r.uploaded_at)
                   /\ ~Naive(r.uploaded_at)

\* The UPDATEs without the commit: closing the connection drops them.
sweep_update_uncommitted(tbl, todo) == tbl

\* auto_archive, second part: the UPDATE of each of these ids and the commit.
sweep_update(tbl, todo) ==
    {IF r.id \in todo THEN [r EXCEPT !.status = "archived"] ELSE r : r \in tbl}

\* auto_archive with no other statement between its SELECT and its commit.
auto_archive(tbl, t) ==
    IF sweep_raises(tbl) THEN tbl ELSE sweep_update(tbl, sweep_select(tbl, t))

\* DELETE ... WHERE id <= ?
delete_item_upto(tbl, delete_id) == {r \in tbl : r.id > delete_id}

delete_item(tbl, delete_id) == {r \in tbl : r.id # delete_id}

restore_item(tbl, restore_id) ==
    {IF r.id = restore_id THEN [r EXCEPT !.status = "lost"] ELSE r : r \in tbl}

\* WHERE clause with the end date compared by <.
Matches_end_exclusive(r, status_filter, start_date, end_date) ==
    /\ status_filter # NoStatus => r.status = status_filter
    /\ start_date # NoDate =>
          sql_date(r.uploaded_at) # SqlNull /\ sql_date(r.uploaded_at) >= start_date
    /\ end_date # NoDate =>
          sql_date(r.uploaded_at) # SqlNull /\ sql_date(r.uploaded_at) < end_date

\* WHERE clause built by get_items.
Matches(r, status_filter, start_date, end_date) ==
    /\ status_filter # NoStatus => r.status = status_filter
    /\ start_date # NoDate =>
          sql_date(r.uploaded_at) # SqlNull /\ sql_date(r.uploaded_at) >= start_date
    /\ end_date # NoDate =>
          sql_date(r.uploaded_at) # SqlNull /\ sql_date(r.uploaded_at) <= end_date

\* ORDER BY uploaded_at DESC: no row precedes a row with a larger key.
Descending(s) ==
    \A j, k \in 1..Len(s) : j < k => ~TextLess(s[j].uploaded_at, s[k].uploaded_at)

\* The row sequences get_items may return: SQLite leaves the order of rows
\* with equal uploaded_at open, so every descending arrangement is possible.
get_items(tbl, status_filter, start_date, end_date) ==
    LET sel == {r \in tbl : Matches(r, status_filter, start_date, end_date)}
        n   == Cardinality(sel)
    IN  {s \in [1..n -> sel] :
            /\ \A j, k \in 1..n : j # k => s[j] # s[k]
            /\ Descending(s)}

\* A session before its first load: session_state as the teacher view
\* initialises it, the script not running.
IdleSession ==
    [pc |-> "idle", logged_in |-> FALSE, username |-> NoUser,
     exists |-> FALSE, todo |-> {}, swept_at |-> 0, lost |-> {}, drawn |-> ""]

\* ---------------------------------------------------------------- actions
Init ==
    /\ items = {}
    /\ seq = 0
    /\ now = 0
    /\ op = Op("init_db", 0)
    /\ result = << >>
    /\ teachers = {}
    /\ sess = [s \in Sessions |-> IdleSession]
    /\ actor = 1

\* The wall clock moves between two operations; each operation reads it once.
AdvanceClock ==
    /\ \E t \in ClockValues : t > now /\ now' = t
    /\ op' = Op("utcnow", 0)
    /\ result' = << >>
    /\ UNCHANGED <<items, seq>>
    /\ UNCHANGED pvars

AddItem ==
    /\ seq < MaxItems
    /\ \E d \in Descriptions :
          /\ items' = add_item(items, seq, d, "Library", "Office", "None", now)
          /\ op' = [Op("add_item", NewId(items, seq)) EXCEPT !.description = d]
    /\ seq' = NewId(items, seq)
    /\ result' = << >>
    /\ UNCHANGED now
    /\ UNCHANGED pvars

MarkCollected ==
    /\ \E i \in 1..MaxItems :
          /\ items' = mark_collected(items, i, now)
          /\ op' = Op("mark_collected", i)
    /\ result' = << >>
    /\ UNCHANGED <<seq, now>>
    /\ UNCHANGED pvars

ArchiveItem ==
    /\ \E i \in 1..MaxItems :
          /\ items' = archive_item(items, i)
          /\ op' = Op("archive_item", i)
    /\ result' = << >>
    /\ UNCHANGED <<seq, now>>
    /\ UNCHANGED pvars

\* auto_archive() of a run of session s, up to the rows of its SELECT, each
\* parsed and compared.
AutoArchiveSelect(s) ==
    /\ sess[s].pc = "idle"
    /\ IF sweep_raises(items)
         THEN /\ sess' = sess
              /\ op' = Op("auto_archive_raised", 0)
         ELSE /\ sess' = [sess EXCEPT ![s] = [@ EXCEPT !.pc = "sweeping",
                                                       !.todo = sweep_select(items, now)]]
              /\ op' = Op("select_lost", 0)
    /\ actor' = s
    /\ result' = << >>
    /\ UNCHANGED <<items, seq, now, teachers>>

\* ... and auto_archive() from its UPDATEs to the commit.  ok: no other call
\* ran since the SELECT.
AutoArchive(s) ==
    /\ sess[s].pc = "sweeping"
    /\ items' = sweep_update(items, sess[s].todo)
    /\ sess' = [sess EXCEPT ![s] = [@ EXCEPT !.pc = "idle", !.todo = {}]]
    /\ op' = [Op("auto_archive", 0) EXCEPT
                 !.ok = (op.name = "select_lost" /\ actor = s)]
    /\ actor' = s
    /\ result' = << >>
    /\ UNCHANGED <<seq, now, teachers>>

\* History / Archive tab of a run of session s in which Delete or Restore was
\* clicked: the list of the chosen table.  The admin actions are drawn only
\* when the list is not empty.
HistoryList(s) ==
    /\ sess[s].pc = "idle"
    /\ \E tab \in {"collected", "archived"} :
          /\ result' \in get_items(items, tab, NoDate, NoDate)
          /\ op' = [Op("get_items", 0) EXCEPT !.status_filter = tab]
          /\ sess' = IF Len(result') > 0
                       THEN [sess EXCEPT ![s] = [@ EXCEPT !.pc = "history",
                                                          !.drawn = tab]]
                       ELSE sess
    /\ actor' = s
    /\ UNCHANGED <<items, seq, now, teachers>>

\* ... and the DELETE of the Delete button.
Delete(s) ==
    /\ sess[s].pc = "history"
    /\ \E i \in 1..(MaxItems + 1) :
          /\ i > 0
          /\ items' = delete_item(items, i)
          /\ op' = Op("delete", i)
    /\ sess' = [sess EXCEPT ![s] = [@ EXCEPT !.pc = "idle", !.drawn = ""]]
    /\ actor' = s
    /\ result' = << >>
    /\ UNCHANGED <<seq, now, teachers>>

\* ... or the UPDATE of the Restore button, drawn with the Archived list.
Restore(s) ==
    /\ sess[s].pc = "history"
    /\ sess[s].drawn = "archived"
    /\ \E i \in 0..MaxItems :
          /\ items' = IF i > 0 THEN restore_item(items, i) ELSE items
          /\ op' = Op("restore", i)
    /\ sess' = [sess EXCEPT ![s] = [@ EXCEPT !.pc = "idle", !.drawn = ""]]
    /\ actor' = s
    /\ result' = << >>
    /\ UNCHANGED <<seq, now, teachers>>

GetItems ==
    /\ \E sf \in Statuses \cup {NoStatus}, sd, ed \in FilterDates \cup {NoDate} :
          /\ result' \in get_items(items, sf, sd, ed)
          /\ op' = [Op("get_items", 0) EXCEPT !.status_filter = sf,
                                              !.start_date = sd,
                                              !.end_date = ed]
    /\ UNCHANGED <<items, seq, now>>
    /\ UNCHANGED pvars

Next ==
    \/ AdvanceClock
    \/ AddItem
    \/ MarkCollected
    \/ ArchiveItem
    \/ \E s \in Sessions :
          \/ AutoArchiveSelect(s)
          \/ AutoArchive(s)
          \/ HistoryList(s)
          \/ Delete(s)
          \/ Restore(s)

Spec == Init /\ [][Next]_vars

\* The queries, on the tables the item functions build.
NextQuery ==
    \/ AdvanceClock
    \/ AddItem
    \/ MarkCollected
    \/ ArchiveItem
    \/ GetItems

SpecQuery == Init /\ [][NextQuery]_vars

\* A database file that already holds rows when the program starts (init_db
\* creates the tables only IF NOT EXISTS): rows whose uploaded_at is NULL, is
\* text that is no timestamp, or is a timestamp with a UTC offset.
LegacyRows ==
    [id : 1..MaxLegacy, description : {"umbrella"}, found_location : {"Gate"},
     collect_location : {"Office"}, image_path : {"None"},
     uploaded_at : {NULL, EmptyText, TimeOnly, JulianDay, Garbage, NowText, Aware(0)},
     status : {"lost"}, collected_at : {NULL}]

LegacyTables ==
    {t \in SUBSET LegacyRows :
        /\ t # {}
        /\ \A r1, r2 \in t : r1.id = r2.id => r1 = r2}

InitLegacy ==
    /\ items \in LegacyTables
    /\ seq = SetMax(Ids(items))
    /\ now = 0
    /\ op = Op("init_db", 0)
    /\ result = << >>
    /\ teachers = {}
    /\ sess = [s \in Sessions |-> IdleSession]
    /\ actor = 1

SpecLegacy == InitLegacy /\ [][Next]_vars

\* ------------------------------------------------------- credential store
\* hashlib.sha256(password).hexdigest(), on the passwords of the model
hash_password(password) ==
    CASE password = "pw1" ->
           "c592df4a86933b92addc9842402ddf198c638ea9be58916ee6e3734e1e3152f8"
      [] password = "pw2" ->
           "93915a0a4bf8f634cb1856494dd4304472ad46b9827f541f76b6761c49cc55b0"
      [] password = "" ->
           "e3b0c44298fc1c149afbf4c8996fb92427ae41e4649b934ca495991b7852b855"

check_teacher_exists(tch) == Cardinality(tch) > 0

\* INSERT OR REPLACE in place of the INSERT: the row of a taken username is
\* replaced by the new one.
create_teacher_replace(tch, username, password) ==
    [teachers |-> {t \in tch : t.username # username}
                      \cup {[id            |-> SetMax(Ids(tch)) + 1,
                             username      |-> username,
                             password_hash |-> hash_password(password)]},
     ok |-> TRUE]

\* The INSERT raises IntegrityError when the UNIQUE username is taken.
create_teacher(tch, username, password) ==
    IF \E t \in tch : t.username = username
      THEN [teachers |-> tch, ok |-> FALSE]
      ELSE [teachers |-> tch \cup {[id            |-> SetMax(Ids(tch)) + 1,
                                    username      |-> username,
                                    password_hash |-> hash_password(password)]},
            ok |-> TRUE]

\* The row is looked up and its hash is not compared.
verify_teacher_any_password(tch, username, password) ==
    \E t \in tch : t.username = username

verify_teacher(tch, username, password) ==
    \E t \in tch : /\ t.username = username
                   /\ hash_password(password) = t.password_hash

\* ------------------------------------------------- the script, step by step
\* The script without the st.stop() of the login branch.
LoggedInContent_no_stop(session) == TRUE

\* if not st.session_state.logged_in: ... st.stop()
LoggedInContent(session) == session.logged_in

\* What the users of the portal enter: the text of the account forms, the
\* description of the Add Item form (up to cap items), the filters of the
\* student view.
AllInputs ==
    [users |-> Usernames, passwords |-> Passwords, descriptions |-> Descriptions,
     cap |-> MaxItems, statuses |-> Statuses, dates |-> FilterDates]

\* The same from users who keep to one password, one description and the
\* undated list of lost items.
FewInputs ==
    [users |-> Usernames, passwords |-> {"pw1"}, descriptions |-> {"wallet"},
     cap |-> MaxShared, statuses |-> {"lost"}, dates |-> {}]

\* Text a form field may hold.
FormUsers(in) == in.users \cup {""}
FormPass(in)  == in.passwords \cup {""}

\* The script run of session s is over: back to waiting for an interaction.
EndCycle(s) ==
    [sess[s] EXCEPT !.pc = "idle", !.exists = FALSE, !.swept_at = 0,
                    !.lost = {}, !.drawn = ""]

LostNow(tbl) == get_items(tbl, "lost", NoDate, NoDate)

\* An interaction of session s starts a script run: init_db, then auto_archive
\* up to the rows of its SELECT, each parsed and compared.  When the loop
\* raises, the run ends there.
PageLoad(s) ==
    /\ sess[s].pc = "idle"
    /\ IF sweep_raises(items)
         THEN /\ sess' = sess
              /\ op' = Op("auto_archive_raised", 0)
         ELSE /\ sess' = [sess EXCEPT ![s] = [@ EXCEPT !.pc = "sweeping",
                                                       !.todo = sweep_select(items, now),
                                                       !.swept_at = now]]
              /\ op' = Op("select_lost", 0)
    /\ actor' = s
    /\ result' = << >>
    /\ UNCHANGED <<items, seq, now, teachers>>

\* ... and auto_archive from its UPDATEs to the commit.  ok: no other call
\* ran since the SELECT.
SweepCommit(s) ==
    /\ sess[s].pc = "sweeping"
    /\ items' = sweep_update(items, sess[s].todo)
    /\ sess' = [sess EXCEPT ![s] = [@ EXCEPT !.pc = "swept", !.todo = {}]]
    /\ op' = [Op("auto_archive", 0) EXCEPT
                 !.ok = (op.name = "select_lost" /\ actor = s)]
    /\ actor' = s
    /\ result' = << >>
    /\ UNCHANGED <<seq, now, teachers>>

\* Student view: the list for the chosen status, with or without dates.
StudentList(s, in) ==
    /\ sess[s].pc = "swept"
    /\ \E sf \in in.statuses, sd, ed \in in.dates \cup {NoDate} :
          LET dated == sd # NoDate /\ ed # NoDate
              d1 == IF dated THEN sd ELSE NoDate
              d2 == IF dated THEN ed ELSE NoDate
          IN  /\ result' \in get_items(items, sf, d1, d2)
              /\ op' = [Op("get_items", 0) EXCEPT !.status_filter = sf,
                                                  !.start_date = d1,
                                                  !.end_date = d2]
    /\ sess' = [sess EXCEPT ![s] = [@ EXCEPT !.pc = "chart"]]
    /\ actor' = s
    /\ UNCHANGED <<items, seq, now, teachers>>

\* Student view: all items, for the monthly chart.
StudentChart(s) ==
    /\ sess[s].pc = "chart"
    /\ result' \in get_items(items, NoStatus, NoDate, NoDate)
    /\ op' = Op("get_items", 0)
    /\ sess' = [sess EXCEPT ![s] = EndCycle(s)]
    /\ actor' = s
    /\ UNCHANGED <<items, seq, now, teachers>>

\* Teacher view: is there a teacher account?
TeacherEnter(s) ==
    /\ sess[s].pc = "swept"
    /\ sess' = [sess EXCEPT ![s] = [@ EXCEPT !.pc = "teacher",
                                             !.exists = check_teacher_exists(teachers)]]
    /\ op' = Op("check_teacher_exists", 0)
    /\ actor' = s
    /\ result' = << >>
    /\ UNCHANGED <<items, seq, now, teachers>>

\* The create_admin form, drawn when no account was found, is submitted.
TeacherBootstrap(s, in) ==
    /\ sess[s].pc = "teacher"
    /\ ~sess[s].exists
    /\ \E u \in FormUsers(in), p, p2 \in FormPass(in) :
          IF p # p2 \/ u = "" \/ p = ""
            THEN /\ teachers' = teachers
                 /\ op' = [Op("form_error", 0) EXCEPT !.username = u, !.password = p]
            ELSE LET c == create_teacher(teachers, u, p)
                 IN  /\ teachers' = c.teachers
                     /\ op' = [Op("create_teacher", 0) EXCEPT !.username = u,
                                                              !.password = p,
                                                              !.ok = c.ok]
    /\ sess' = [sess EXCEPT ![s] = EndCycle(s)]
    /\ actor' = s
    /\ result' = << >>
    /\ UNCHANGED <<items, seq, now>>

\* The login form is submitted; st.stop() ends the run either way.
TeacherLogin(s, in) ==
    /\ sess[s].pc = "teacher"
    /\ ~LoggedInContent(sess[s])
    /\ \E u \in FormUsers(in), p \in FormPass(in) :
          LET v == verify_teacher(teachers, u, p)
          IN  /\ sess' = [sess EXCEPT ![s] =
                            IF v THEN [EndCycle(s) EXCEPT !.logged_in = TRUE,
                                                          !.username = u]
                                 ELSE EndCycle(s)]
              /\ op' = [Op("verify_teacher", 0) EXCEPT !.username = u,
                                                       !.password = p,
                                                       !.ok = v]
    /\ actor' = s
    /\ result' = << >>
    /\ UNCHANGED <<items, seq, now, teachers>>

\* Not logged in and nothing submitted: the login form, then st.stop().
TeacherStop(s) ==
    /\ sess[s].pc = "teacher"
    /\ ~LoggedInContent(sess[s])
    /\ sess' = [sess EXCEPT ![s] = EndCycle(s)]
    /\ op' = Op("stop", 0)
    /\ actor' = s
    /\ result' = << >>
    /\ UNCHANGED <<items, seq, now, teachers>>

\* Add Item tab: the form was submitted with its three text fields filled.
\* The run goes on to the other tabs.
TeacherAddItem(s, in) ==
    /\ sess[s].pc = "teacher"
    /\ LoggedInContent(sess[s])
    /\ seq < in.cap
    /\ \E d \in in.descriptions :
          /\ items' = add_item(items, seq, d, "Library", "Office", "None", now)
          /\ op' = [Op("add_item", NewId(items, seq)) EXCEPT !.description = d]
    /\ seq' = NewId(items, seq)
    /\ result' = << >>
    /\ sess' = [sess EXCEPT ![s] = [@ EXCEPT !.pc = "added"]]
    /\ actor' = s
    /\ UNCHANGED <<now, teachers>>

\* Manage Items tab: the list of the lost items, a Mark Collected button for
\* each.  pc "manage": this run was started by one of these buttons;
\* "tabs": nothing clicked so far; "tabs_done": the form of the Add Item tab
\* was what started the run.
TeacherManage(s) ==
    /\ sess[s].pc \in {"teacher", "added"}
    /\ LoggedInContent(sess[s])
    /\ result' \in LostNow(items)
    /\ op' = [Op("get_items", 0) EXCEPT !.status_filter = "lost"]
    /\ \/ /\ sess[s].pc = "added"
          /\ sess' = [sess EXCEPT ![s] = [@ EXCEPT !.pc = "tabs_done"]]
       \/ /\ sess[s].pc = "teacher"
          /\ sess' = [sess EXCEPT ![s] = [@ EXCEPT !.pc = "tabs"]]
       \/ /\ sess[s].pc = "teacher"
          /\ Len(result') > 0
          /\ sess' = [sess EXCEPT ![s] =
                        [@ EXCEPT !.pc = "manage",
                                  !.lost = {result'[k].id : k \in 1..Len(result')}]]
    /\ actor' = s
    /\ UNCHANGED <<items, seq, now, teachers>>

\* ... and mark_collected for the button clicked, then st.rerun().
TeacherCollect(s) ==
    /\ sess[s].pc = "manage"
    /\ \E i \in sess[s].lost :
          /\ items' = mark_collected(items, i, now)
          /\ op' = Op("mark_collected", i)
    /\ result' = << >>
    /\ sess' = [sess EXCEPT ![s] = EndCycle(s)]
    /\ actor' = s
    /\ UNCHANGED <<seq, now, teachers>>

\* History / Archive tab: the list of the chosen table; Delete (and Restore,
\* with the Archived list) are drawn when it is not empty.  pc "history":
\* this run was started by one of the two; "account": by a widget of the
\* Account tab; otherwise the script runs to its end.
TeacherHistory(s) ==
    /\ sess[s].pc \in {"tabs", "tabs_done"}
    /\ \E tab \in {"collected", "archived"} :
          /\ result' \in get_items(items, tab, NoDate, NoDate)
          /\ op' = [Op("get_items", 0) EXCEPT !.status_filter = tab]
          /\ \/ sess' = [sess EXCEPT ![s] = EndCycle(s)]
             \/ /\ sess[s].pc = "tabs"
                /\ Len(result') > 0
                /\ sess' = [sess EXCEPT ![s] = [@ EXCEPT !.pc = "history",
                                                         !.drawn = tab]]
             \/ /\ sess[s].pc = "tabs"
                /\ sess' = [sess EXCEPT ![s] = [@ EXCEPT !.pc = "account"]]
    /\ actor' = s
    /\ UNCHANGED <<items, seq, now, teachers>>

\* ... and the DELETE of the Delete button, then the rerun.
TeacherDelete(s) ==
    /\ sess[s].pc = "history"
    /\ \E i \in 1..(MaxItems + 1) :
          /\ i > 0
          /\ items' = delete_item(items, i)
          /\ op' = Op("delete", i)
    /\ result' = << >>
    /\ sess' = [sess EXCEPT ![s] = EndCycle(s)]
    /\ actor' = s
    /\ UNCHANGED <<seq, now, teachers>>

\* ... or the UPDATE of the Restore button, drawn with the Archived list.
TeacherRestore(s) ==
    /\ sess[s].pc = "history"
    /\ sess[s].drawn = "archived"
    /\ \E i \in 0..MaxItems :
          /\ items' = IF i > 0 THEN restore_item(items, i) ELSE items
          /\ op' = Op("restore", i)
    /\ result' = << >>
    /\ sess' = [sess EXCEPT ![s] = EndCycle(s)]
    /\ actor' = s
    /\ UNCHANGED <<seq, now, teachers>>

\* Account tab: Logout.
TeacherLogout(s) ==
    /\ sess[s].pc = "account"
    /\ sess' = [sess EXCEPT ![s] = [EndCycle(s) EXCEPT !.logged_in = FALSE,
                                                       !.username = NoUser]]
    /\ op' = Op("logout", 0)
    /\ result' = << >>
    /\ actor' = s
    /\ UNCHANGED <<items, seq, now, teachers>>

\* Account tab: the create_extra_teacher form is submitted.
TeacherCreateExtra(s, in) ==
    /\ sess[s].pc = "account"
    /\ \E u \in FormUsers(in), p \in FormPass(in) :
          IF u = "" \/ p = ""
            THEN /\ teachers' = teachers
                 /\ op' = [Op("form_error", 0) EXCEPT !.username = u, !.password = p]
            ELSE LET c == create_teacher(teachers, u, p)
                 IN  /\ teachers' = c.teachers
                     /\ op' = [Op("create_teacher", 0) EXCEPT !.username = u,
                                                              !.password = p,
                                                              !.ok = c.ok]
    /\ result' = << >>
    /\ sess' = [sess EXCEPT ![s] = EndCycle(s)]
    /\ actor' = s
    /\ UNCHANGED <<items, seq, now>>

Script(s, in) ==
    \/ PageLoad(s)
    \/ SweepCommit(s)
    \/ StudentList(s, in)
    \/ StudentChart(s)
    \/ TeacherEnter(s)
    \/ TeacherBootstrap(s, in)
    \/ TeacherLogin(s, in)
    \/ TeacherStop(s)
    \/ TeacherAddItem(s, in)
    \/ TeacherManage(s)
    \/ TeacherCollect(s)
    \/ TeacherHistory(s)
    \/ TeacherDelete(s)
    \/ TeacherRestore(s)
    \/ TeacherLogout(s)
    \/ TeacherCreateExtra(s, in)

\* The portal with every session's script running, a step at a time.
NextPortal ==
    \/ AdvanceClock
    \/ \E s \in Sessions : Script(s, FewInputs)

SpecPortal == Init /\ [][NextPortal]_vars

\* The portal used from one browser session only.
NextSolo ==
    \/ AdvanceClock
    \/ Script(1, AllInputs)

SpecSolo == Init /\ [][NextSolo]_vars

\* ------------------------------------------------------ claim vocabulary
Row(tbl, id) == CHOOSE r \in tbl : r.id = id

\* now - uploaded_at of a row whose uploaded_at is a timestamp
Age(r) == now - fromisoformat(r.uploaded_at)

WellFormed(r) == Parses(r.uploaded_at) /\ Naive(r.uploaded_at)

\* C1: in every reachable state every stored item has collected_at non-null
\* if and only if its status is 'collected'.
C1_CollectedAtIffCollected ==
    \A r \in items : (r.collected_at # NULL) <=> (r.status = "collected")

\* C2: the only status changes an existing item undergoes are
\* lost -> collected, lost -> archived and archived -> lost; a collected item
\* never changes status again and an archived item never becomes collected.
C2_OnlyLifecycleTransitions ==
    [][\A r \in items : \A r2 \in items' :
          (r2.id = r.id /\ r2.status # r.status) =>
              <<r.status, r2.status>> \in {<<"lost", "collected">>,
                                           <<"lost", "archived">>,
                                           <<"archived", "lost">>}]_vars

\* C3: one sweep at time now archives exactly the items that were lost with a
\* well-formed uploaded_at and now - uploaded_at strictly above the 30-day
\* threshold; a lost item of age at most the threshold (exactly 30 days
\* included) stays lost.  The items the sweep takes are those lost and stale
\* in the table it reads; its UPDATEs archive those and no other; and from the
\* table read to the table written, with no call in between, exactly the
\* stale lost items change to archived.
C3_SweepArchivesExactlyStale ==
    [][/\ op'.name = "select_lost" =>
             sess'[actor'].todo =
                {r.id : r \in {q \in items : /\ q.status = "lost" /\ WellFormed(q)
                                              /\ Age(q) > Threshold}}
       /\ op'.name = "auto_archive" =>
             /\ Ids(items') = Ids(items)
             /\ \A r \in items :
                   LET r2 == Row(items', r.id) IN
                   /\ r.id \in sess[actor'].todo => r2.status = "archived"
                   /\ r.id \notin sess[actor'].todo => r2 = r
       /\ (op'.name = "auto_archive" /\ op'.ok) =>
             \A r \in items :
                LET r2 == Row(items', r.id) IN
                /\ (r2.status = "archived" /\ r.status # "archived")
                      <=> (r.status = "lost" /\ WellFormed(r) /\ Age(r) > Threshold)
                /\ (r.status = "lost" /\ WellFormed(r) /\ Age(r) <= Threshold)
                      => r2.status = "lost"]_vars

\* A sweep has just archived an item one tick older than 30 days and has left
\* lost an item that is exactly 30 days old.
C3_Witness ==
    /\ op.name = "auto_archive" /\ op.ok
    /\ \E r \in items : r.status = "archived" /\ Age(r) = Threshold + 1
    /\ \E r \in items : r.status = "lost" /\ Age(r) = Threshold

\* C4: the sweep leaves every collected or archived item unchanged in every
\* field, and changes nothing but the status of the items it archives.
C4_SweepFrame ==
    [][op'.name = "auto_archive" =>
          \A r \in items :
             /\ r.status \in {"collected", "archived"} => r \in items'
             /\ \E r2 \in items' : r2.id = r.id /\ [r2 EXCEPT !.status = r.status] = r]_vars

\* C5: right after a sweep that no other call interrupted, a second sweep at
\* the same clock value changes no item: two sweeps in a row give the table
\* one sweep gives.
C5_SweepTwiceSameAsOnce ==
    (op.name = "auto_archive" /\ op.ok) => auto_archive(items, now) = items

\* The state after a sweep that found two stale items.
C5_Witness ==
    /\ op.name = "auto_archive" /\ op.ok
    /\ Cardinality({r \in items : r.status = "archived" /\ Age(r) > Threshold}) >= 2

\* C6: with a lost item whose uploaded_at is malformed or missing in the
\* table, the sweep does not raise, leaves that item as it is (status 'lost')
\* and still archives every other lost item older than the threshold.
C6_SweepSkipsMalformed ==
    [][(\E m \in items : m.status = "lost" /\ ~WellFormed(m)) =>
          /\ op'.name # "auto_archive_raised"
          /\ op'.name = "select_lost" =>
                sess'[actor'].todo =
                   {r.id : r \in {q \in items : /\ q.status = "lost" /\ WellFormed(q)
                                                 /\ Age(q) > Threshold}}
          /\ (op'.name = "auto_archive" /\ op'.ok) =>
                \A r \in items :
                   /\ (r.status = "lost" /\ ~WellFormed(r)) => r \in items'
                   /\ (r.status = "lost" /\ WellFormed(r) /\ Age(r) > Threshold)
                         => [r EXCEPT !.status = "archived"] \in items']_vars

\* C7: mark_collected on an item that is not lost changes neither its status
\* nor its collected_at; on a lost item it sets status 'collected' and
\* collected_at to the current time; no other item changes.
C7_MarkCollectedOnlyFromLost ==
    [][op'.name = "mark_collected" =>
          \A r \in items :
             /\ (r.id # op'.id \/ r.status # "lost") => r \in items'
             /\ (r.id = op'.id /\ r.status = "lost") =>
                   [r EXCEPT !.status = "collected",
                             !.collected_at = isoformat(now)] \in items']_vars

\* C8: add_item creates exactly one new item, with an id never used before,
\* status 'lost', collected_at null and uploaded_at the current time, and
\* leaves the existing items as they are; a get_items with status filter
\* 'lost' that follows returns the new item exactly once (on an empty store:
\* exactly one item, with the given description).
C8_AddItemCreatesOneLostItem ==
    [][op'.name = "add_item" =>
          \E r \in items' :
             /\ r \notin items
             /\ items' = items \cup {r}
             /\ r.id = op'.id /\ r.id \notin Ids(items) /\ r.id > seq
             /\ r.status = "lost"
             /\ r.collected_at = NULL
             /\ WellFormed(r) /\ fromisoformat(r.uploaded_at) = now
             /\ r.description = op'.description
             /\ get_items(items', "lost", NoDate, NoDate) # {}
             /\ \A s \in get_items(items', "lost", NoDate, NoDate) :
                   /\ Cardinality({k \in 1..Len(s) : s[k] = r}) = 1
                   /\ items = {} =>
                         /\ Len(s) = 1
                         /\ s[1].description = op'.description
                         /\ s[1].collected_at = NULL]_vars

\* An item has just been added next to an older one that is no longer lost.
C8_Witness ==
    /\ op.name = "add_item"
    /\ \E r \in items : /\ r.id = op.id /\ r.status = "lost"
                        /\ fromisoformat(r.uploaded_at) = now
    /\ \E q \in items : /\ q.id # op.id /\ q.status # "lost"
                        /\ fromisoformat(q.uploaded_at) < now

\* The filter of the claim: the requested status, and the calendar day of
\* uploaded_at between start and end, both ends included; a row whose
\* uploaded_at has no calendar day is in no range.
InFilter(r, f) ==
    LET up  == r.uploaded_at
        day == IF Parses(up) THEN fromisoformat(up) \div TicksPerDay ELSE sql_date(up)
    IN  /\ f.status_filter # NoStatus => r.status = f.status_filter
        /\ f.start_date # NoDate => (day # SqlNull /\ day >= f.start_date)
        /\ f.end_date # NoDate => (day # SqlNull /\ day <= f.end_date)

\* C9: get_items returns exactly the stored items that match the filter,
\* each once, the most recently uploaded first; with an empty filter it
\* returns all items; it modifies no item.
C9_GetItemsFilterAndOrder ==
    [][op'.name = "get_items" =>
          /\ items' = items
          /\ \A k \in 1..Len(result') :
                result'[k] \in items /\ InFilter(result'[k], op')
          /\ \A r \in items :
                InFilter(r, op') =>
                   Cardinality({k \in 1..Len(result') : result'[k] = r}) = 1
          /\ \A j, k \in 1..Len(result') :
                j < k => fromisoformat(result'[j].uploaded_at)
                            >= fromisoformat(result'[k].uploaded_at)
          /\ (op'.status_filter = NoStatus /\ op'.start_date = NoDate
                 /\ op'.end_date = NoDate) => Len(result') = Cardinality(items)]_vars

\* A query for the days 0..30 returned, most recent first, an item uploaded
\* on the last day of the range and an item uploaded on its first day.
C9_Witness ==
    /\ op.name = "get_items"
    /\ op.start_date = 0 /\ op.end_date = AUTO_ARCHIVE_DAYS
    /\ Len(result) = 2
    /\ result[1].uploaded_at.date = op.end_date
    /\ result[2].uploaded_at.date = op.start_date

\* C10: the delete removes the item with the given id and no other, leaves
\* the remaining items unchanged, and with an id no item has it leaves the
\* table and its row count as they are.
C10_DeleteRemovesOnlyThatId ==
    [][op'.name = "delete" =>
          /\ items' \subseteq items
          /\ \A r \in items : r \in items' <=> r.id # op'.id
          /\ op'.id \notin Ids(items) =>
                items' = items /\ Cardinality(items') = Cardinality(items)]_vars

\* A delete of an id that was never handed out, on a table that has rows.
C10_Witness ==
    /\ op.name = "delete"
    /\ op.id > seq
    /\ Cardinality(items) = 2

\* C11: from its creation to its deletion an item keeps the uploaded_at that
\* add_item wrote: no operation changes the uploaded_at of an existing item,
\* and a new item gets the time of its creation.
C11_UploadedAtImmutable ==
    [][\A r2 \in items' :
          IF r2.id \in Ids(items)
            THEN r2.uploaded_at = Row(items, r2.id).uploaded_at
            ELSE op'.name = "add_item" /\ r2.uploaded_at = isoformat(now)]_vars

\* An item older than the threshold has been archived and restored, and
\* still carries its upload time.
C11_Witness ==
    /\ op.name = "restore"
    /\ \E r \in items : r.id = op.id /\ r.status = "lost" /\ Age(r) > Threshold

\* C19: item ids are unique among the stored items, and an id that was handed
\* out and is no longer in the table (its item was deleted) never comes back:
\* add_item always takes an id above every id handed out before.
C19_IdsUniqueNeverReused ==
    /\ [](\A r1, r2 \in items : r1.id = r2.id => r1 = r2)
    /\ [](\A r \in items : r.id \in 1..seq)
    /\ [][/\ seq' >= seq
          /\ \A i \in 1..seq : i \notin Ids(items) => i \notin Ids(items')
          /\ op'.name = "add_item" => op'.id > seq /\ op'.id \in Ids(items')]_vars

\* The only item was deleted and a new one was added: it got the next id, not
\* the id of the deleted item.
C19_Witness ==
    /\ op.name = "add_item"
    /\ op.id = 2
    /\ Ids(items) = {2}

\* C12: no two accounts share a username; create_teacher with a taken
\* username reports failure, adds no account and leaves every stored account,
\* its password hash included, as it was; create_teacher with a new username
\* reports success and adds exactly one account, with that username and the
\* hash of the password given.
C12_UsernamesUnique ==
    /\ [](\A t1, t2 \in teachers : t1.username = t2.username => t1 = t2)
    /\ [][op'.name = "create_teacher" =>
             IF \E t \in teachers : t.username = op'.username
               THEN /\ ~op'.ok
                    /\ teachers' = teachers
               ELSE /\ op'.ok
                    /\ teachers \subseteq teachers'
                    /\ Cardinality(teachers') = Cardinality(teachers) + 1
                    /\ \E t \in teachers' \ teachers :
                          /\ t.username = op'.username
                          /\ t.password_hash = hash_password(op'.password)]_vars

\* create_teacher was called with a taken username and another password, and
\* failed.
C12_Witness ==
    /\ op.name = "create_teacher"
    /\ ~op.ok
    /\ \E t \in teachers : /\ t.username = op.username
                           /\ t.password_hash # hash_password(op.password)

\* C13: verify_teacher answers True exactly when a stored account has the
\* username given, letter for letter, and the hash of the password given; for
\* a username no account has it answers False; it leaves the accounts as they
\* are.
C13_VerifyIffUsernameAndHashMatch ==
    [][op'.name = "verify_teacher" =>
          /\ op'.ok <=> \E t \in teachers :
                           /\ t.username = op'.username
                           /\ t.password_hash = hash_password(op'.password)
          /\ op'.username \notin {t.username : t \in teachers} => ~op'.ok
          /\ teachers' = teachers]_vars

\* A login with the password of a stored account and its username in another
\* letter case was refused.
C13_Witness ==
    /\ op.name = "verify_teacher"
    /\ ~op.ok
    /\ op.username \in Usernames
    /\ op.username \notin {t.username : t \in teachers}
    /\ \E t \in teachers : t.password_hash = hash_password(op.password)

\* C14: a script run starts with the sweep and runs it once: the sweep begins
\* only in a session that is between two runs and ends only where it began;
\* every query and every item mutation comes from a run whose sweep is over.
\* With one session using the portal, no row a run is handed is lost with a
\* readable uploaded_at more than the threshold before the time of that run's
\* sweep.
C14_SweepOncePerCycleFirst ==
    [][/\ op'.name = "select_lost" =>
             sess[actor'].pc = "idle" /\ sess'[actor'].pc = "sweeping"
       /\ op'.name = "auto_archive" =>
             sess[actor'].pc = "sweeping" /\ sess'[actor'].pc = "swept"
       /\ op'.name \in {"get_items", "add_item", "mark_collected",
                        "delete", "restore"} =>
             sess[actor'].pc \in {"swept", "chart", "teacher", "added", "manage",
                                  "tabs", "tabs_done", "history"}
       /\ \A k \in 1..Len(result') :
             result'[k].status = "lost" /\ WellFormed(result'[k]) =>
                sess[actor'].swept_at - fromisoformat(result'[k].uploaded_at)
                   <= Threshold]_vars

\* The list of lost items of a run whose sweep archived one of two items:
\* the list holds the other one only.
C14_Witness ==
    /\ op.name = "get_items"
    /\ op.status_filter = "lost"
    /\ Len(result) = 1
    /\ result[1] \in items
    /\ \E r \in items : r.status = "archived" /\ Age(r) > Threshold

\* C15: add_item, mark_collected, the restore and the delete run only in a
\* script run of a logged-in session; a session becomes logged in only by its
\* own verify_teacher call answering True, and then carries the username
\* verified; Logout leaves it not logged in with no username; at all times a
\* session is logged in exactly when its username is set; and a run of a
\* session that is not logged in leaves the items as they are, the sweep at
\* the start of the run apart.
C15_MutationsOnlyWhenLoggedIn ==
    /\ [](\A s \in Sessions : sess[s].logged_in <=> sess[s].username # NoUser)
    /\ [][/\ op'.name \in {"add_item", "mark_collected", "restore", "delete"} =>
                sess[actor'].logged_in
          /\ \A s \in Sessions :
                (~sess[s].logged_in /\ sess'[s].logged_in) =>
                   (/\ op'.name = "verify_teacher"
                    /\ op'.ok
                    /\ actor' = s
                    /\ sess'[s].username = op'.username)
          /\ op'.name = "logout" =>
                ~sess'[actor'].logged_in /\ sess'[actor'].username = NoUser
          /\ (~sess[actor'].logged_in /\ op'.name # "auto_archive") =>
                (items' = items /\ seq' = seq)]_vars

\* A logged-in session has added an item while another session is not
\* logged in.
C15_Witness ==
    /\ op.name = "add_item"
    /\ sess[actor].logged_in
    /\ sess[actor].username \in Usernames
    /\ \E s \in Sessions : s # actor /\ ~sess[s].logged_in
    /\ items # {}

\* C16: a session that is not logged in calls create_teacher only in a run
\* whose check_teacher_exists answered False; once an account is stored, every
\* create_teacher that adds an account comes from a logged-in session; and
\* verify_teacher never answers True while no account is stored.
C16_AccountsOnlyByBootstrapOrLoggedIn ==
    [][/\ (op'.name = "create_teacher" /\ ~sess[actor'].logged_in) =>
             ~sess[actor'].exists
       /\ (op'.name = "create_teacher" /\ op'.ok /\ teachers # {}) =>
             sess[actor'].logged_in
       /\ (op'.name = "verify_teacher" /\ op'.ok) => teachers # {}]_vars

\* C17: the restore of a stored item leaves it lost, and the sweep of the
\* script run that follows the restore does not take the restored item for
\* archiving: the item is still lost when that run lists the lost items.
C17_RestoreSurvivesNextSweep ==
    [][/\ (op'.name = "restore" /\ op'.id \in Ids(items')) =>
             Row(items', op'.id).status = "lost"
       /\ (op.name = "restore" /\ op.id \in Ids(items)
              /\ op'.name = "select_lost") =>
             op.id \notin sess'[actor'].todo]_vars

\* C18: with mark_collected of another session between the SELECT and the
\* UPDATEs of a sweep, the items end as after the two operations one after
\* the other; in particular the UPDATEs of a sweep leave every item that is
\* collected when they run as it is.
C18_SweepNeverArchivesCollected ==
    [][op'.name = "auto_archive" =>
          \A r \in items : r.status = "collected" => r \in items']_vars

TypeOK ==
    /\ seq \in 0..MaxItems
    /\ now \in ClockValues
    /\ op.name \in {"init_db", "utcnow", "add_item", "mark_collected", "archive_item",
                    "auto_archive", "delete", "restore", "get_items",
                    "select_lost", "check_teacher_exists", "create_teacher",
                    "form_error", "verify_teacher", "stop", "logout",
                    "auto_archive_raised"}
    /\ \A r \in items : r.status \in Statuses /\ r.id \in 1..seq
    /\ \A r1, r2 \in items : r1.id = r2.id => r1 = r2

====
